---------------------------- MODULE Spec2Model ----------------------------
(***************************************************************************)
(* Model of Newsfreqvolatility.py: the duplicate-headline detector         *)
(* (get_duplicate_news, highlight_similar_titles), the volatility          *)
(* estimators (get_sp500_volatility and its helpers) and the Streamlit     *)
(* script that drives them.                                                *)
(*                                                                         *)
(* Dates are day numbers.  A string is a sequence of character codes       *)
(* (SPACE < "a" < "b" < ..., as in Python's code-point order).             *)
(***************************************************************************)
EXTENDS Integers, Sequences, FiniteSets, TLC

\* ------------------------------------------------------------------ bounds
MaxDay == 1
MaxRecords == 3
MaxBars == 5
MaxWindow == 3

\* --------------------------------------------------------- program constants
DefaultThreshold == 35
DefaultWindow == 20
MinWindow == 5
\* the multiplier slider counts in tenths: 1.0 .. 3.0, default 2.0
DefaultMultiplier == 20

VARIABLES harness, pc, start, end, news_threshold, model_type, window,
          multiplier, boxes, raw_results, bars, ret_news, ret_vol, screen, io

vars == <<harness, pc, start, end, news_threshold, model_type, window,
          multiplier, boxes, raw_results, bars, ret_news, ret_vol, screen, io>>

\* ------------------------------------------------------------------ strings
SPACE == 0

\* The headlines "b a", "a c" and "d" (a = 1, b = 2, c = 3, d = 4).
\* Token-sorted, "a b" and "a c" score 66.7 (unsorted they would score 33.3);
\* "d" scores 0 against both; equal titles score 100.
TitleBA == <<2, SPACE, 1>>
TitleAC == <<1, SPACE, 3>>
TitleD == <<4>>
Titles == {TitleBA, TitleAC, TitleD}

RECURSIVE SplitAcc(_, _, _)
SplitAcc(s, cur, acc) ==
  IF s = <<>>
  THEN IF cur = <<>> THEN acc ELSE Append(acc, cur)
  ELSE IF Head(s) = SPACE
       THEN SplitAcc(Tail(s), <<>>, IF cur = <<>> THEN acc ELSE Append(acc, cur))
       ELSE SplitAcc(Tail(s), Append(cur, Head(s)), acc)

\* str.split(): tokens separated by runs of whitespace
Split(s) == SplitAcc(s, <<>>, <<>>)

RECURSIVE StrLess(_, _)
StrLess(a, b) ==
  IF b = <<>> THEN FALSE
  ELSE IF a = <<>> THEN TRUE
  ELSE IF Head(a) # Head(b) THEN Head(a) < Head(b)
  ELSE StrLess(Tail(a), Tail(b))

RECURSIVE Insert(_, _)
Insert(tok, sorted) ==
  IF sorted = <<>> THEN <<tok>>
  ELSE IF StrLess(tok, Head(sorted)) THEN <<tok>> \o sorted
  ELSE <<Head(sorted)>> \o Insert(tok, Tail(sorted))

RECURSIVE SortTokens(_)
SortTokens(toks) ==
  IF toks = <<>> THEN <<>>
  ELSE Insert(Head(toks), SortTokens(Tail(toks)))

RECURSIVE Join(_)
Join(toks) ==
  IF toks = <<>> THEN <<>>
  ELSE IF Len(toks) = 1 THEN Head(toks)
  ELSE Head(toks) \o <<SPACE>> \o Join(Tail(toks))

Max2(a, b) == IF a >= b THEN a ELSE b

RECURSIVE LCS(_, _)
LCS(a, b) ==
  IF a = <<>> \/ b = <<>> THEN 0
  ELSE IF Head(a) = Head(b) THEN 1 + LCS(Tail(a), Tail(b))
  ELSE Max2(LCS(Tail(a), b), LCS(a, Tail(b)))

\* fuzz.ratio: normalized Indel similarity * 100, kept exact as num/den
ratio(s1, s2) ==
  IF Len(s1) + Len(s2) = 0
  THEN [num |-> 100, den |-> 1]
  ELSE [num |-> 200 * LCS(s1, s2), den |-> Len(s1) + Len(s2)]

token_sort_ratio(s1, s2) ==
  ratio(Join(SortTokens(Split(s1))), Join(SortTokens(Split(s2))))

QualifiesStrict(score, threshold) == score.num > threshold * score.den

\* similarity_score >= threshold
Qualifies(score, threshold) == score.num >= threshold * score.den

\* the f-string of line 18, kept as its three interpolated parts
Highlighted(a, b, score) == [a |-> a, b |-> b, score |-> score]

RECURSIVE HighlightLoop(_, _, _, _, _)
HighlightLoop(titles, threshold, i, j, acc) ==
  IF i > Len(titles) THEN acc
  ELSE IF j > Len(titles)
       THEN HighlightLoop(titles, threshold, i + 1, i + 2, acc)
       ELSE LET similarity_score == token_sort_ratio(titles[i], titles[j])
            IN HighlightLoop(titles, threshold, i, j + 1,
                 IF Qualifies(similarity_score, threshold)
                 THEN Append(acc, Highlighted(titles[i], titles[j], similarity_score))
                 ELSE acc)

highlight_similar_titles(titles, threshold) ==
  HighlightLoop(titles, threshold, 1, 2, <<>>)

\* --------------------------------------------------------- news records
OkDate(d) == [kind |-> "ok", day |-> d]
\* None / NaN in the column (NaT once converted), and an unparseable string
NaT == [kind |-> "missing", day |-> 0]
BadDate == [kind |-> "malformed", day |-> 0]

Days == 0..MaxDay
PubDates == {OkDate(d) : d \in Days} \cup {NaT, BadDate}
Records == [title : Titles, date : PubDates]

SeqsUpTo(S, n) == UNION {[1..k -> S] : k \in 0..n}

Thresholds == {0, DefaultThreshold, 67, 100}

\* pd.to_datetime(df['published date']) raises on an unparseable string
ToDatetimeRaises(raw) == \E k \in DOMAIN raw : raw[k].date.kind = "malformed"

\* df[(date >= start) & (date <= end)]: NaT compares False
InRange(r, s, e) == r.date.kind = "ok" /\ r.date.day >= s /\ r.date.day <= e

FilterRange(raw, s, e) == SelectSeq(raw, LAMBDA r : InRange(r, s, e))

\* df.groupby('published date')['title'].apply(list): keys ascending
GroupKeys(df) == {df[k].date.day : k \in DOMAIN df}

RECURSIVE TitlesOf(_, _)
TitlesOf(df, d) ==
  IF df = <<>> THEN <<>>
  ELSE IF Head(df).date.day = d
       THEN <<Head(df).title>> \o TitlesOf(Tail(df), d)
       ELSE TitlesOf(Tail(df), d)

PairStartSelf(i) == i

\* range(i + 1, len(titles)) of the counting loop, 1-based
PairStart(i) == i + 1

RECURSIVE CountLoop(_, _, _, _, _)
CountLoop(titles, threshold, i, j, acc) ==
  IF i > Len(titles) THEN acc
  ELSE IF j > Len(titles)
       THEN CountLoop(titles, threshold, i + 1, PairStart(i + 1), acc)
       ELSE LET similarity_score == token_sort_ratio(titles[i], titles[j])
            IN CountLoop(titles, threshold, i, j + 1,
                 IF Qualifies(similarity_score, threshold)
                 THEN [count |-> acc.count + 1,
                       display |-> acc.display \o
                          highlight_similar_titles(<<titles[i], titles[j]>>, threshold)]
                 ELSE acc)

RECURSIVE DaysLoop(_, _, _, _)
DaysLoop(df, keys, threshold, acc) ==
  IF keys = {} THEN acc
  ELSE LET date == CHOOSE d \in keys : \A o \in keys : d <= o
           r == CountLoop(TitlesOf(df, date), threshold, 1, PairStart(1),
                          [count |-> 0, display |-> acc.display])
       IN DaysLoop(df, keys \ {date}, threshold,
                   [counts |-> acc.counts @@ (date :> r.count),
                    display |-> r.display])

DateRangeOpen(s, e) == IF e < s THEN <<>> ELSE [k \in 1..(e - s) |-> s + k - 1]

\* pd.date_range(start, end): both ends included
DateRange(s, e) == IF e < s THEN <<>> ELSE [k \in 1..(e - s + 1) |-> s + k - 1]

\* duplicate_counts.get(day.date(), 0)
GetOrZero(counts, d) == IF d \in DOMAIN counts THEN counts[d] ELSE 0

NewsNotCalled == [raised |-> "not_called", series |-> <<>>, similar |-> <<>>, io |-> <<>>]

\* lines 33-54: what get_duplicate_news does with a non-empty provider result
count_duplicates(s, e, threshold, raw) ==
  IF ToDatetimeRaises(raw)
  THEN [raised |-> "DateParseError", series |-> <<>>, similar |-> <<>>,
        io |-> <<"get_news">>]
  ELSE LET df == FilterRange(raw, s, e)
           empty == [d \in {} |-> 0]
           r == DaysLoop(df, GroupKeys(df), threshold,
                         [counts |-> empty, display |-> <<>>])
           all_days == DateRange(s, e)
       IN [raised |-> "none",
           series |-> [k \in DOMAIN all_days |->
                         [day |-> all_days[k], count |-> GetOrZero(r.counts, all_days[k])]],
           similar |-> r.display,
           io |-> <<"get_news">>]

get_duplicate_news(s, e, threshold, raw) ==
  IF raw = <<>>
  THEN [raised |-> "No news data found for given range.", series |-> <<>>,
        similar |-> <<>>, io |-> <<"get_news">>]
  ELSE count_duplicates(s, e, threshold, raw)

\* ------------------------------------------------------------ price data
\* A float cell is NaN (missing) or a finite number.  Prices are finite and
\* positive, so no division is by zero and every arithmetic result is decided
\* by which operands are missing; the numbers themselves are not kept.
NaN == "NaN"
Num == "Num"

\* yf.download('^GSPC', ...): n daily bars
Download(n) ==
  LET col == [k \in 1..n |-> Num]
  IN [Open |-> col, High |-> col, Low |-> col, Close |-> col, Volume |-> col]

\* df[name] = col
SetCol(df, name, col) == (name :> col) @@ df

ShiftNone(col) == col

\* Series.shift(): one place down, NaN first
Shift(col) == [k \in DOMAIN col |-> IF k = 1 THEN NaN ELSE col[k - 1]]

\* elementwise +, -, /: missing when either operand is
Arith(a, b) == [k \in DOMAIN a |-> IF a[k] = NaN \/ b[k] = NaN THEN NaN ELSE Num]

\* abs(col), col * scalar
Unary(a) == [k \in DOMAIN a |-> a[k]]

\* DataFrame.max(axis=1): skipna, missing only when every operand is
RowMax(a, b, c) ==
  [k \in DOMAIN a |-> IF a[k] = NaN /\ b[k] = NaN /\ c[k] = NaN THEN NaN ELSE Num]

\* Series.pct_change(): col / col.shift() - 1
pct_change(col) == Arith(col, Shift(col))

\* rolling(window=w): min_periods = w valid observations in col[k-w+1 .. k]
WindowFull(col, k, w) == k >= w /\ \A m \in (k - w + 1)..k : col[m] # NaN

RollingMean(col, w) ==
  [k \in DOMAIN col |-> IF WindowFull(col, k, w) THEN Num ELSE NaN]

\* sample standard deviation (ddof = 1): undefined on a single observation
RollingStd(col, w) ==
  [k \in DOMAIN col |-> IF WindowFull(col, k, w) /\ w - 1 > 0 THEN Num ELSE NaN]

calculate_atr(df, w) ==
  LET d1 == SetCol(df, "H-L", Arith(df.High, df.Low))
      d2 == SetCol(d1, "H-C", Unary(Arith(d1.High, Shift(d1.Close))))
      d3 == SetCol(d2, "L-C", Unary(Arith(d2.Low, Shift(d2.Close))))
      d4 == SetCol(d3, "TR", RowMax(d3["H-L"], d3["H-C"], d3["L-C"]))
      d5 == SetCol(d4, "ATR", RollingMean(d4.TR, w))
  IN [df |-> d5, out |-> d5.ATR]

calculate_hv(df, w) ==
  LET d1 == SetCol(df, "Return", pct_change(df.Close))
  IN [df |-> d1, out |-> Unary(RollingStd(d1.Return, w))]

\* (a positive multiplier scales the band and leaves what is missing as it is)
calculate_bollinger_bands(df, w, mult) ==
  LET d1 == SetCol(df, "Moving_Avg", RollingMean(df.Close, w))
      d2 == SetCol(d1, "Rolling_Std", RollingStd(d1.Close, w))
      d3 == SetCol(d2, "Upper_Band", Arith(d2.Moving_Avg, Unary(d2.Rolling_Std)))
      d4 == SetCol(d3, "Lower_Band", Arith(d3.Moving_Avg, Unary(d3.Rolling_Std)))
      d5 == SetCol(d4, "Volatility",
                   Unary(Arith(Arith(d4.Upper_Band, d4.Lower_Band), d4.Moving_Avg)))
  IN [df |-> d5, out |-> d5.Volatility]

MenuModels == {"Standard Deviation of Returns", "Average True Range (ATR)",
               "Historical Volatility (HV)", "Bollinger Bands", "VIX"}

\* tags no branch of get_sp500_volatility names
UnknownTags == {"SMA", "bollinger bands"}

ModelTags == MenuModels \cup UnknownTags

ReturnBased == {"Standard Deviation of Returns", "Historical Volatility (HV)"}

Multipliers == {10, DefaultMultiplier, 30}

Returned(df0, r) ==
  LET d == SetCol(r.df, "Volatility", r.out)
  IN [raised |-> "none", vol |-> d.Volatility,
      columns |-> DOMAIN d \ DOMAIN df0, io |-> <<"download">>]

VolRaised(msg) ==
  [raised |-> msg, vol |-> <<>>, columns |-> {}, io |-> <<"download">>]

UnknownModelDefault(df, w) ==
  Returned(df, [df |-> df, out |-> RollingStd(pct_change(df.Close), w)])

\* else: raise ValueError(f"Unknown model type: {model_type}")
UnknownModel(df, w) == VolRaised("ValueError: Unknown model type")

\* the provider call itself failing (n < 0) leaves the function at line 81
get_sp500_volatility(tag, w, mult, n) ==
  LET df == Download(n)
  IN CASE n < 0 -> VolRaised("download failed")
       [] tag = "Standard Deviation of Returns" ->
            Returned(df, [df |-> df, out |-> RollingStd(pct_change(df.Close), w)])
       [] tag = "Average True Range (ATR)" -> Returned(df, calculate_atr(df, w))
       [] tag = "Historical Volatility (HV)" -> Returned(df, calculate_hv(df, w))
       [] tag = "Bollinger Bands" -> Returned(df, calculate_bollinger_bands(df, w, mult))
       [] tag = "VIX" -> VolRaised("NameError: name 'calculate_vix' is not defined")
       [] OTHER -> UnknownModel(df, w)

VolNotCalled == [raised |-> "not_called", vol |-> <<>>, columns |-> {}, io |-> <<>>]

\* ------------------------------------------------- direct call: detector
InitDetector ==
  /\ harness = "detector"
  /\ pc = "ready"
  /\ start \in Days
  /\ end \in Days
  /\ news_threshold \in Thresholds
  /\ raw_results \in SeqsUpTo(Records, MaxRecords)
  /\ model_type = "Bollinger Bands"
  /\ window = DefaultWindow
  /\ multiplier = DefaultMultiplier
  /\ boxes = {}
  /\ bars = 0
  /\ ret_news = NewsNotCalled
  /\ ret_vol = VolNotCalled
  /\ screen = <<>>
  /\ io = <<>>

CallGetDuplicateNews ==
  /\ harness = "detector"
  /\ pc = "ready"
  /\ ret_news' = get_duplicate_news(start, end, news_threshold, raw_results)
  /\ io' = ret_news'.io
  /\ pc' = "done"
  /\ UNCHANGED <<harness, start, end, news_threshold, model_type, window,
                 multiplier, boxes, raw_results, bars, ret_vol, screen>>

SpecDetector == InitDetector /\ [][CallGetDuplicateNews]_vars

\* ------------------------------------------------ direct call: estimator
InitEstimator ==
  /\ harness = "estimator"
  /\ pc = "ready"
  /\ start \in Days
  /\ end \in Days
  /\ model_type \in ModelTags
  /\ window \in 1..MaxWindow
  /\ multiplier \in Multipliers
  /\ bars \in 0..MaxBars
  /\ news_threshold = DefaultThreshold
  /\ raw_results = <<>>
  /\ boxes = {}
  /\ ret_news = NewsNotCalled
  /\ ret_vol = VolNotCalled
  /\ screen = <<>>
  /\ io = <<>>

CallGetSp500Volatility ==
  /\ harness = "estimator"
  /\ pc = "ready"
  /\ ret_vol' = get_sp500_volatility(model_type, window, multiplier, bars)
  /\ io' = ret_vol'.io
  /\ pc' = "done"
  /\ UNCHANGED <<harness, start, end, news_threshold, model_type, window,
                 multiplier, boxes, raw_results, bars, ret_news, screen>>

SpecEstimator == InitEstimator /\ [][CallGetSp500Volatility]_vars

\* ------------------------------------------------------ Streamlit script
ChartOrder == <<"Line", "Bar", "Scatter">>

\* lines 161-167: the checked boxes, in the order the script asks them
ChartTypes(bx) == SelectSeq(ChartOrder, LAMBDA c : c \in bx)

\* the layout every figure gets (lines 121-132)
Layout == [title |-> "News Redundancy vs S&P 500 Volatility",
           yaxis_title |-> "Count of Duplicate News",
           yaxis2_title |-> "S&P 500 Volatility"]

create_plot(news_data, volatility_data, chart_type) ==
  LET news == CASE chart_type = "Line" ->
                     <<[name |-> "Duplicate News", mode |-> "lines", y |-> news_data]>>
                [] chart_type = "Bar" ->
                     <<[name |-> "Duplicate News", mode |-> "bar", y |-> news_data]>>
                [] chart_type = "Scatter" ->
                     <<[name |-> "Duplicate News", mode |-> "markers", y |-> news_data]>>
                [] OTHER -> <<>>
      vol == CASE chart_type = "Line" ->
                    <<[name |-> "S&P 500 Volatility", mode |-> "lines", y |-> volatility_data]>>
               [] chart_type = "Bar" ->
                    <<[name |-> "S&P 500 Volatility", mode |-> "bar", y |-> volatility_data]>>
               [] OTHER -> <<>>
  IN [traces |-> news \o vol, layout |-> Layout]

Item(kind, body) == [kind |-> kind, body |-> body]

RECURSIVE RenderCharts(_, _, _)
RenderCharts(types, news_series, vol_series) ==
  IF types = <<>> THEN <<>>
  ELSE <<Item("subheader", Head(types)),
         Item("plotly_chart", create_plot(news_series, vol_series, Head(types)))>>
       \o RenderCharts(Tail(types), news_series, vol_series)

\* lines 186-191
RenderSimilar(similar_titles) ==
  IF similar_titles # <<>>
  THEN <<Item("subheader", "Similar Articles Found")>>
       \o [k \in DOMAIN similar_titles |-> Item("markdown", similar_titles[k])]
  ELSE <<Item("write", "No similar articles found.")>>

\* line 155 runs only for "Bollinger Bands": otherwise the name is unbound
MultiplierBound(tag) == tag = "Bollinger Bands"

Failed(rn, rv, msg) ==
  [screen |-> <<Item("error", msg)>>, ret_news |-> rn, ret_vol |-> rv,
   io |-> rn.io \o rv.io]

FailedPartial(rn, rv, msg) ==
  [screen |-> RenderSimilar(rn.similar) \o <<Item("error", msg)>>,
   ret_news |-> rn, ret_vol |-> rv, io |-> rn.io \o rv.io]

\* except Exception as e: st.error(...)
Except(rn, rv, msg) == Failed(rn, rv, msg)

\* lines 179-191: both series are there
Render(rn, rv, bx) ==
  [screen |-> RenderCharts(ChartTypes(bx), rn.series, rv.vol) \o RenderSimilar(rn.similar),
   ret_news |-> rn, ret_vol |-> rv, io |-> rn.io \o rv.io]

AfterVolatility(rn, rv, bx) ==
  IF rv.raised # "none" THEN Except(rn, rv, rv.raised) ELSE Render(rn, rv, bx)

\* line 177: the arguments are evaluated, then the call is made
AfterNews(rn, tag, w, mult, bx, n) ==
  IF rn.raised # "none" THEN Except(rn, VolNotCalled, rn.raised)
  ELSE IF ~MultiplierBound(tag)
       THEN Except(rn, VolNotCalled, "NameError: name 'multiplier' is not defined")
       ELSE AfterVolatility(rn, get_sp500_volatility(tag, w, mult, n), bx)

\* lines 172-193: the body run when the button is pressed
GeneratePlot(s, e, threshold, tag, w, mult, bx, news, n) ==
  AfterNews(get_duplicate_news(s, e, threshold, news), tag, w, mult, bx, n)

Idle(items) ==
  [screen |-> items, ret_news |-> NewsNotCalled, ret_vol |-> VolNotCalled, io |-> <<>>]

GuardOff(s, e) == FALSE

\* line 157
RangeRejected(s, e) == s > e

\* one run of the script, top to bottom
Script(s, e, threshold, tag, w, mult, bx, clicked, news, n) ==
  LET head == <<Item("title", "News Redundancy vs S&P 500 Volatility")>>
  IN IF RangeRejected(s, e)
     THEN Idle(head \o <<Item("warning", "Start date must be before end date.")>>)
     ELSE LET warn == IF ChartTypes(bx) = <<>>
                      THEN <<Item("warning", "Please select at least one chart type.")>>
                      ELSE <<>>
              r == IF clicked
                   THEN GeneratePlot(s, e, threshold, tag, w, mult, bx, news, n)
                   ELSE Idle(<<>>)
          IN [r EXCEPT !.screen = head \o warn \o @]

SliderWindows == {MinWindow, DefaultWindow}

Rec(t, d) == [title |-> t, date |-> d]

\* provider answers the script is run against
SampleNews ==
  { <<>>,
    <<Rec(TitleBA, OkDate(0)), Rec(TitleAC, OkDate(0))>>,
    <<Rec(TitleBA, OkDate(0)), Rec(TitleD, OkDate(0))>>,
    <<Rec(TitleD, OkDate(MaxDay)), Rec(TitleD, NaT)>>,
    <<Rec(TitleD, BadDate)>> }

\* the price provider returns n >= 0 bars, or fails (-1)
PriceAnswers == -1..MaxBars

InitApp ==
  /\ harness = "app"
  /\ pc = "rendered"
  /\ start = 0
  /\ end = MaxDay
  /\ news_threshold = DefaultThreshold
  /\ model_type = "Standard Deviation of Returns"
  /\ window = DefaultWindow
  /\ multiplier = DefaultMultiplier
  /\ boxes = {}
  /\ raw_results = <<>>
  /\ bars = 0
  /\ ret_news = NewsNotCalled
  /\ ret_vol = VolNotCalled
  /\ screen = Script(0, MaxDay, DefaultThreshold, "Standard Deviation of Returns",
                     DefaultWindow, DefaultMultiplier, {}, FALSE, <<>>, 0).screen
  /\ io = <<>>

\* the state a run of the script leaves
Commit(s, e, threshold, tag, w, mult, bx, clicked, news, n, r) ==
  /\ harness = "app"
  /\ start' = s
  /\ end' = e
  /\ news_threshold' = threshold
  /\ model_type' = tag
  /\ window' = w
  /\ multiplier' = mult
  /\ boxes' = bx
  /\ pc' = IF clicked THEN "generated" ELSE "rendered"
  /\ raw_results' = IF r.ret_news.io # <<>> THEN news ELSE <<>>
  /\ bars' = IF r.ret_vol.io # <<>> THEN n ELSE 0
  /\ ret_news' = r.ret_news
  /\ ret_vol' = r.ret_vol
  /\ screen' = r.screen
  /\ io' = r.io
  /\ UNCHANGED harness

Drawn(s, e, threshold, tag, w, mult, bx, clicked, news, n) ==
  Commit(s, e, threshold, tag, w, mult, bx, clicked, news, n,
         Script(s, e, threshold, tag, w, mult, bx, clicked, news, n))

\* A rerun after a widget change, or after the button: widgets the run does
\* not draw lose their value (the checkboxes when start > end, the multiplier
\* slider when the model is not "Bollinger Bands").
Rerun(s, e, threshold, tag, w, mult, bx, clicked, news, n) ==
  Drawn(s, e, threshold, tag, w,
        IF MultiplierBound(tag) THEN mult ELSE DefaultMultiplier,
        IF RangeRejected(s, e) THEN {} ELSE bx, clicked, news, n)

SetStart ==
  \E d \in Days \ {start} :
    Rerun(d, end, news_threshold, model_type, window, multiplier, boxes, FALSE, <<>>, 0)

SetEnd ==
  \E d \in Days \ {end} :
    Rerun(start, d, news_threshold, model_type, window, multiplier, boxes, FALSE, <<>>, 0)

SetThreshold ==
  \E t \in Thresholds \ {news_threshold} :
    Rerun(start, end, t, model_type, window, multiplier, boxes, FALSE, <<>>, 0)

SelectModel ==
  \E m \in MenuModels \ {model_type} :
    Rerun(start, end, news_threshold, m, window, multiplier, boxes, FALSE, <<>>, 0)

SetWindow ==
  \E w \in SliderWindows \ {window} :
    Rerun(start, end, news_threshold, model_type, w, multiplier, boxes, FALSE, <<>>, 0)

SetMultiplier ==
  /\ MultiplierBound(model_type)
  /\ \E x \in Multipliers \ {multiplier} :
       Rerun(start, end, news_threshold, model_type, window, x, boxes, FALSE, <<>>, 0)

ToggleCheckbox ==
  /\ ~RangeRejected(start, end)
  /\ \E c \in {"Line", "Bar", "Scatter"} :
       Rerun(start, end, news_threshold, model_type, window, multiplier,
             IF c \in boxes THEN boxes \ {c} ELSE boxes \cup {c}, FALSE, <<>>, 0)

ClickGenerate ==
  /\ ~RangeRejected(start, end)
  /\ \E news \in SampleNews, n \in PriceAnswers :
       Rerun(start, end, news_threshold, model_type, window, multiplier, boxes,
             TRUE, news, n)

NextApp ==
  \/ SetStart
  \/ SetEnd
  \/ SetThreshold
  \/ SelectModel
  \/ SetWindow
  \/ SetMultiplier
  \/ ToggleCheckbox
  \/ ClickGenerate

SpecApp == InitApp /\ [][NextApp]_vars

\* --------------------------------------------- every entry point together
Init == InitDetector \/ InitEstimator \/ InitApp

Next == CallGetDuplicateNews \/ CallGetSp500Volatility \/ NextApp

Spec == Init /\ [][Next]_vars

\* ================================================================ claims
DetectorReturned == harness = "detector" /\ pc = "done" /\ ret_news.raised = "none"

EstimatorReturned == harness = "estimator" /\ pc = "done" /\ ret_vol.raised = "none"

\* index pairs i < j of provider records published on day d that score >= t
PairsOn(d, t) ==
  {p \in (DOMAIN raw_results) \X (DOMAIN raw_results) :
     /\ p[1] < p[2]
     /\ raw_results[p[1]].date = OkDate(d)
     /\ raw_results[p[2]].date = OkDate(d)
     /\ token_sort_ratio(raw_results[p[1]].title, raw_results[p[2]].title).num
          >= t * token_sort_ratio(raw_results[p[1]].title, raw_results[p[2]].title).den}

HeadlinesOn(d) == {k \in DOMAIN raw_results : raw_results[k].date = OkDate(d)}

EntriesFor(d) == {k \in DOMAIN ret_news.series : ret_news.series[k].day = d}

\* C1: when get_duplicate_news returns for start <= end, its series has
\* (end - start) + 1 entries, one for each day of [start, end] and each day
\* once, and the entry is 0 for a day with no qualifying pair or no headline.
C1_SeriesCoversRange ==
  (DetectorReturned /\ start <= end) =>
    /\ Len(ret_news.series) = (end - start) + 1
    /\ \A d \in start..end :
         /\ Cardinality(EntriesFor(d)) = 1
         /\ PairsOn(d, news_threshold) = {} =>
              \A k \in EntriesFor(d) : ret_news.series[k].count = 0
    /\ \A k \in DOMAIN ret_news.series : ret_news.series[k].day \in start..end

C1_Witness ==
  /\ DetectorReturned
  /\ start < end
  /\ \E k \in DOMAIN ret_news.series : ret_news.series[k].count > 0
  /\ \E d \in start..end : HeadlinesOn(d) = {} /\ EntriesFor(d) # {}

RECURSIVE SumCounts(_)
SumCounts(series) ==
  IF series = <<>> THEN 0 ELSE Head(series).count + SumCounts(Tail(series))

AllPairs(t) == UNION {PairsOn(d, t) : d \in start..end}

EntryOf(p) ==
  [a |-> raw_results[p[1]].title, b |-> raw_results[p[2]].title,
   score |-> token_sort_ratio(raw_results[p[1]].title, raw_results[p[2]].title)]

\* C2: the count of each day d of [start, end] is the number of unordered
\* pairs i < j of headlines of day d scoring >= threshold, and the match list
\* holds exactly one entry per such pair (as many copies of an entry as there
\* are pairs producing it), so its length is the sum of the counts.
C2_CountsArePairs ==
  DetectorReturned =>
    /\ \A k \in DOMAIN ret_news.series :
         ret_news.series[k].count =
           Cardinality(PairsOn(ret_news.series[k].day, news_threshold))
    /\ Len(ret_news.similar) = Cardinality(AllPairs(news_threshold))
    /\ Len(ret_news.similar) = SumCounts(ret_news.series)
    /\ \A k \in DOMAIN ret_news.similar :
         Cardinality({m \in DOMAIN ret_news.similar : ret_news.similar[m] = ret_news.similar[k]})
           = Cardinality({p \in AllPairs(news_threshold) : EntryOf(p) = ret_news.similar[k]})

C2_Witness ==
  /\ DetectorReturned
  /\ start < end
  /\ \E d \in start..end :
       /\ Cardinality(HeadlinesOn(d)) = 2
       /\ Cardinality(PairsOn(d, news_threshold)) = 1
  /\ \E i, j \in DOMAIN raw_results :
       /\ raw_results[i].title = raw_results[j].title
       /\ raw_results[i].date.kind = "ok" /\ raw_results[j].date.kind = "ok"
       /\ raw_results[i].date.day # raw_results[j].date.day
       /\ raw_results[i].date.day \in start..end
       /\ raw_results[j].date.day \in start..end
  /\ Len(ret_news.similar) = 1

CountAt(t, k) == get_duplicate_news(start, end, t, raw_results).series[k].count

\* C7: for thresholds t1 < t2 and the same provider records, the count of any
\* day under t2 is <= its count under t1, and at threshold 0 every unordered
\* pair of headlines of the day is counted.
C7_MonotoneInThreshold ==
  DetectorReturned =>
    \A k \in DOMAIN ret_news.series :
      /\ \A t \in Thresholds :
           /\ t > news_threshold => CountAt(t, k) <= ret_news.series[k].count
           /\ t < news_threshold => CountAt(t, k) >= ret_news.series[k].count
      /\ news_threshold = 0 =>
           2 * ret_news.series[k].count =
             Cardinality(HeadlinesOn(ret_news.series[k].day))
               * (Cardinality(HeadlinesOn(ret_news.series[k].day)) - 1)

C7_Witness ==
  /\ DetectorReturned
  /\ news_threshold = DefaultThreshold
  /\ \E k \in DOMAIN ret_news.series :
       /\ CountAt(100, k) < ret_news.series[k].count
       /\ ret_news.series[k].count < CountAt(0, k)

WellDated(raw) == SelectSeq(raw, LAMBDA r : InRange(r, start, end))

\* C8: a record whose published date is malformed or missing, or lies outside
\* [start, end], is dropped silently: the call succeeds and returns what it
\* returns without that record.
C8_BadDatesDropped ==
  (harness = "detector" /\ pc = "done" /\ raw_results # <<>>) =>
    /\ ret_news.raised = "none"
    /\ ret_news.series =
         count_duplicates(start, end, news_threshold, WellDated(raw_results)).series
    /\ ret_news.similar =
         count_duplicates(start, end, news_threshold, WellDated(raw_results)).similar

Shown(kind) == {k \in DOMAIN screen : screen[k].kind = kind}

\* C3 (as claimed): given start > end, get_duplicate_news and
\* get_sp500_volatility both fail with an invalid-range error before any I/O.
C3_RangeErrorBeforeIO ==
  (start > end /\ pc = "done") =>
    /\ io = <<>>
    /\ harness = "detector" => ret_news.raised = "InvalidRangeError"
    /\ harness = "estimator" => ret_vol.raised = "InvalidRangeError"

\* C3 (amended): given start > end, the script stops at its start > end guard:
\* it shows the warning, calls neither function and does no I/O.  The two
\* functions do not check the range: called with start > end each calls its
\* provider first, and get_duplicate_news, when it returns, returns an empty
\* series and an empty match list.
C3_GuardBeforePipelines ==
  start > end =>
    /\ harness = "app" =>
         /\ io = <<>>
         /\ ret_news = NewsNotCalled
         /\ ret_vol = VolNotCalled
         /\ pc = "rendered"
         /\ \E k \in Shown("warning") :
              screen[k].body = "Start date must be before end date."
         /\ Shown("error") = {}
    /\ (harness = "detector" /\ pc = "done") =>
         /\ io = <<"get_news">>
         /\ ret_news.raised # "InvalidRangeError"
         /\ ret_news.raised = "none" =>
              ret_news.series = <<>> /\ ret_news.similar = <<>>
    /\ (harness = "estimator" /\ pc = "done") =>
         /\ io = <<"download">>
         /\ ret_vol.raised # "InvalidRangeError"

C3_Witness ==
  /\ harness = "app"
  /\ start > end
  /\ model_type = "Bollinger Bands"
  /\ Shown("warning") # {}

\* C4: given an empty provider result both pipelines fail with a no-data
\* error: get_duplicate_news on no records, get_sp500_volatility on no bars.
C4_EmptyResultFails ==
  /\ (harness = "detector" /\ pc = "done" /\ raw_results = <<>>) =>
       ret_news.raised = "No news data found for given range."
  /\ (harness = "estimator" /\ pc = "done" /\ bars = 0) =>
       ret_vol.raised \notin {"none", "not_called"}
  /\ (harness = "app" /\ pc = "generated" /\ ret_vol.io # <<>> /\ bars = 0) =>
       ret_vol.raised \notin {"none", "not_called"} /\ Shown("error") # {}

\* C5 (as claimed): an unknown model tag is rejected before anything is done:
\* the price provider is not called and no volatility column is calculated.
C5_RejectedBeforeDownload ==
  (harness = "estimator" /\ pc = "done" /\ model_type \notin MenuModels) =>
    /\ ret_vol.raised = "ValueError: Unknown model type"
    /\ io = <<>>
    /\ ret_vol.columns = {}

\* C5 (amended): an unknown model tag is rejected with the unknown-model
\* ValueError before any volatility is computed (no column is added, no series
\* is returned, no other model is substituted), but after the price provider
\* has been called once.
C5_RejectedAfterDownload ==
  (harness = "estimator" /\ pc = "done" /\ model_type \notin MenuModels) =>
    /\ ret_vol.raised = "ValueError: Unknown model type"
    /\ io = <<"download">>
    /\ ret_vol.columns = {}
    /\ ret_vol.vol = <<>>

C5_Witness ==
  /\ harness = "estimator"
  /\ pc = "done"
  /\ model_type = "SMA"
  /\ bars > window
  /\ ret_vol.raised = "ValueError: Unknown model type"

\* the pattern of C6 for window w: rows 0 .. w-2 missing, rows w .. defined,
\* row w-1 missing for the return-based models and defined for the others
\* (ret_vol.vol is 1-based: row r is ret_vol.vol[r + 1])
MissingPattern(w) ==
  \A k \in DOMAIN ret_vol.vol :
    /\ k <= w - 1 => ret_vol.vol[k] = NaN
    /\ k >= w + 1 => ret_vol.vol[k] = Num
    /\ k = w => (ret_vol.vol[k] = NaN <=> model_type \in ReturnBased)

\* C6 (as claimed): for every model and every window w, on more than w bars.
C6_MissingPrefixAnyWindow ==
  (EstimatorReturned /\ bars > window) => MissingPattern(window)

\* C6 (amended): for every model that returns a series and every window
\* w >= 2, on more than w bars of finite positive prices, the series is missing
\* at its first w-1 positions and defined from position w on; position w-1 is
\* missing for the return-based models and defined for ATR and Bollinger Bands.
C6_MissingPrefix ==
  (EstimatorReturned /\ bars > window /\ window >= 2) => MissingPattern(window)

C6_Witness ==
  /\ EstimatorReturned
  /\ window = 3
  /\ bars = 5
  /\ model_type = "Historical Volatility (HV)"
  /\ ret_vol.vol = <<NaN, NaN, NaN, Num, Num>>

RequestFailed ==
  \/ ret_news.raised \notin {"none", "not_called"}
  \/ ret_vol.raised \notin {"none", "not_called"}
  \/ Shown("error") # {}

Calls(name) == Cardinality({k \in DOMAIN io : io[k] = name})

\* C9: a failed Generate-Plot request shows the error message and nothing
\* else of the result: no chart, no similar-articles list, no "No similar
\* articles found"; each provider is called at most once in it (no retry), and
\* every request begins with its own get_news call, whose answer alone decides
\* what the request reports about the news.
C9_ErrorsAreTerminal ==
  (harness = "app" /\ pc = "generated") =>
    /\ RequestFailed =>
         /\ Shown("plotly_chart") = {}
         /\ Shown("subheader") = {}
         /\ Shown("markdown") = {}
         /\ Shown("write") = {}
         /\ Cardinality(Shown("error")) = 1
         /\ screen[Len(screen)].kind = "error"
    /\ Calls("get_news") = 1
    /\ Calls("download") <= 1
    /\ io[1] = "get_news"
    /\ ret_news = get_duplicate_news(start, end, news_threshold, raw_results)

C9_Witness ==
  /\ harness = "app"
  /\ pc = "generated"
  /\ boxes # {}
  /\ ret_news.raised = "none"
  /\ ret_news.similar # <<>>
  /\ ret_vol.raised = "download failed"
  /\ Shown("error") # {}

\* C10: for every model of the menu, a valid request (start <= end, a chart
\* type selected, both providers answering with data) gets a volatility series
\* and reaches the charts without the "Something went wrong" error.
C10_EveryMenuModelRenders ==
  ( /\ harness = "app"
    /\ pc = "generated"
    /\ boxes # {}
    /\ ret_news.raised = "none"
    /\ ret_vol.io # <<>> => bars > 0 ) =>
    /\ ret_vol.raised = "none"
    /\ Shown("plotly_chart") # {}
    /\ Shown("error") = {}

=============================================================================
